---- MODULE Spec2Model ----
(***************************************************************************)
(* Model of update-song-data.py (lumbric/karaoke-videoplayer): the         *)
(* reconciliation loop of main, the per-file processing functions and      *)
(* save_json_files, with the two JSON files, the videos directory and the  *)
(* covers directory as the persistent state.  A run can be killed between   *)
(* any two steps and the tool can be started again.  SpecTools is one run   *)
(* of either update-song-data.py or download-song-data.py, which works on   *)
(* the same directories and writes the same videos.json.                    *)
(***************************************************************************)
EXTENDS Integers, Sequences, FiniteSets, TLC

\* ------------------------------------------------------------------ bounds
MaxFiles == 2      \* files in the videos directory
MaxRuns == 2       \* invocations of the tool in one behaviour

\* ------------------------------------------------------- python values
\* A Python value as far as the code looks at it: its type and its text.
PyNone == [py |-> "None", s |-> ""]
PyStr(str) == [py |-> "str", s |-> str]
PyList(str) == [py |-> "list", s |-> str]
PyPath(str) == [py |-> "Path", s |-> str]

\* bool(v): None, "" and [] are false, a Path object is always true.
Truthy(v) == /\ v.py # "None"
             /\ ~(v.py = "str" /\ v.s = "")
             /\ ~(v.py = "list" /\ v.s = "")

\* json.dump can encode None, str and list, and raises TypeError on a Path.
JsonSerializable(v) == v.py # "Path"

\* ------------------------------------------------------------ constants
Names == {"a", "b"}
VIDEO_EXTENSIONS == <<".mp4", ".mkv">>
COVERS_DIR == "covers"

ExtIndex(ext) == CHOOSE k \in 1..Len(VIDEO_EXTENSIONS) : VIDEO_EXTENSIONS[k] = ext

\* A file of the videos directory: video_path.stem and video_path.suffix.
AllFiles == {[base |-> "a", ext |-> ".mp4"], [base |-> "b", ext |-> ".mp4"],
             [base |-> "a", ext |-> ".mkv"]}

\* video_path.name where video_path.stem is meant.
BaseNameWithSuffix(video_path) == video_path.base \o video_path.ext
BaseName(video_path) == video_path.base
FileName(video_path) == video_path.base \o video_path.ext

\* -------------------------------------------------------------- entries
\* A dict of videos.json; a key that is not in the dict is PyNone here
\* (dict.get), duration_seconds -1 and processed_at 0 stand for no key.
NoDuration == -1
NoTime == 0

NewEntry(base_name) ==
    [filename |-> base_name, artist |-> PyNone, title |-> PyNone,
     genre |-> PyNone, video_filename |-> PyNone, cover_filename |-> PyNone,
     duration_seconds |-> NoDuration, processed_at |-> NoTime]

\* A record of extra_metadata.json as spotdl wrote it; isdict FALSE is None.
\* genres.py = "None" stands for a dict without the key "genres".
NoneMeta == [isdict |-> FALSE, artist |-> PyNone, name |-> PyNone, genres |-> PyNone]
Meta(artist, name, genres) ==
    [isdict |-> TRUE, artist |-> artist, name |-> name, genres |-> genres]
EmptyDict == Meta(PyNone, PyNone, PyNone)
FullMeta == Meta(PyStr("A"), PyStr("T"), PyList("pop"))

\* bool(metadata): None and {} are false.
TruthyMeta(m) == m.isdict /\ m # EmptyDict

\* ------------------------------------------------- dicts kept in order
\* videos_map is a Python dict keyed by filename: a sequence of entries with
\* distinct filenames, in insertion order (list(videos_map.values())).
Keys(map) == {map[k].filename : k \in DOMAIN map}
IndexOf(map, base_name) == CHOOSE k \in DOMAIN map : map[k].filename = base_name
Lookup(map, base_name) == map[IndexOf(map, base_name)]
\* The assignment videos_map[base_name] = entry left out.
PutNothing(map, base_name, entry) == map
\* videos_map[base_name] = entry
Put(map, base_name, entry) ==
    IF base_name \in Keys(map)
    THEN [map EXCEPT ![IndexOf(map, base_name)] = entry]
    ELSE Append(map, entry)

\* extra_metadata_data is a dict base name -> record: a sequence of pairs.
ExtraKeys(extra) == {extra[k].key : k \in DOMAIN extra}
ExtraIndexOf(extra, base_name) == CHOOSE k \in DOMAIN extra : extra[k].key = base_name
ExtraPut(extra, base_name, rec) ==
    IF base_name \in ExtraKeys(extra)
    THEN [extra EXCEPT ![ExtraIndexOf(extra, base_name)] = [key |-> base_name, rec |-> rec]]
    ELSE Append(extra, [key |-> base_name, rec |-> rec])

\* {entry["filename"]: entry for entry in videos_list}: the first occurrence
\* of a filename fixes the position, the last one the value.
RECURSIVE BuildMap(_)
BuildMap(videos_list) ==
    IF videos_list = <<>> THEN <<>>
    ELSE LET n == Len(videos_list)
             e == videos_list[n]
         IN Put(BuildMap(SubSeq(videos_list, 1, n - 1)), e.filename, e)

\* ------------------------------------------------- outcomes of the tools
\* What "spotdl save <query> --save-file <tmp>" did: exit code nonzero,
\* timeout, a file with zero or several records, a file with one record.
\* The records: artist, name and genres; artist and name without "genres";
\* neither artist nor name and no genre; the empty dict.
MetaRecords == {FullMeta,
                Meta(PyStr("A"), PyStr("T"), PyNone),
                Meta(PyNone, PyNone, PyList("")),
                EmptyDict}
MdOutcomes == {[kind |-> k, rec |-> NoneMeta] : k \in {"nonzero", "timeout"}}
              \cup {[kind |-> "multi", rec |-> FullMeta]}
              \cup {[kind |-> "one", rec |-> r] : r \in MetaRecords}
\* What the cover command did: wrote the jpg, exited 0 without a file,
\* exited nonzero or ran into the timeout (check=True, timeout=150: raises).
CoverOutcomes == {"ok", "nofile", "raise"}
\* What get_video_duration got from ffprobe: None (-1 here) or 5.0.
ProbeOutcomes == {NoDuration, 5}

\* ------------------------------------------------------- the functions
GetExistingCover(base_name) == PyPath(COVERS_DIR \o "/" \o base_name \o ".jpg")

\* download_cover: ret is the return value, called says whether spotdl was
\* run for the cover, created whether the jpg file now exists.
DownloadCover(base_name, cv) ==
    LET existing_cover == GetExistingCover(base_name)
    IN IF Truthy(existing_cover)
       THEN [raised |-> "", ret |-> existing_cover, called |-> FALSE, created |-> FALSE]
       ELSE IF cv = "raise"
       THEN [raised |-> "CalledProcessError", ret |-> PyNone, called |-> TRUE, created |-> FALSE]
       ELSE LET new_cover == GetExistingCover(base_name)
            IN [raised |-> "",
                ret |-> IF Truthy(new_cover) THEN new_cover ELSE PyNone,
                called |-> TRUE, created |-> (cv = "ok")]

\* get_spotdl_metadata without the check of len(metadata): metadata[0] is used.
GetSpotdlMetadataFirst(md) ==
    IF md.kind \in {"one", "multi"} /\ TruthyMeta(md.rec) THEN md.rec ELSE NoneMeta
\* get_spotdl_metadata: every failure, the ValueError for len(metadata) != 1
\* included, ends in "return None".
GetSpotdlMetadata(md) ==
    IF md.kind = "one" /\ TruthyMeta(md.rec) THEN md.rec ELSE NoneMeta

\* get_video_duration
GetVideoDuration(pr) == pr

\* extract_song_info: metadata["genres"] raises KeyError without the key.
ExtractSongInfo(metadata) ==
    [raised |-> IF metadata.genres.py = "None" THEN "KeyError" ELSE "",
     artist |-> metadata.artist, title |-> metadata.name, genre |-> metadata.genres]

\* The optional fields the code sets "if artist:", "if title:", "if genre:".
WithSongInfo(entry, info) ==
    [entry EXCEPT !.artist = IF Truthy(info.artist) THEN info.artist ELSE @,
                  !.title = IF Truthy(info.title) THEN info.title ELSE @,
                  !.genre = IF Truthy(info.genre) THEN info.genre ELSE @]

WithVideoFilename(entry, video_path) ==
    IF video_path.ext # ".mp4"
    THEN [entry EXCEPT !.video_filename = PyStr(FileName(video_path))]
    ELSE entry

WithCover(entry, base_name, cover_filename) ==
    IF Truthy(cover_filename) /\ cover_filename # PyStr(base_name \o ".jpg")
    THEN [entry EXCEPT !.cover_filename = cover_filename]
    ELSE entry

WithDuration(entry, duration) ==
    IF duration # NoDuration /\ duration # 0   \* "if duration:"
    THEN [entry EXCEPT !.duration_seconds = duration]
    ELSE entry

NoResult(raised, calls) ==
    [raised |-> raised, has_result |-> FALSE, video_entry |-> NewEntry(""),
     extra_metadata |-> NoneMeta, calls |-> calls, created |-> FALSE]

\* process_video_file with the duration probe before the lookup.
ProcessVideoFileProbeFirst(video_path, md, cv, pr, now) ==
    LET base_name == BaseName(video_path)
        duration == GetVideoDuration(pr)
        extra_metadata == GetSpotdlMetadata(md)
        info == ExtractSongInfo(extra_metadata)
        dl == DownloadCover(base_name, cv)
        cover_calls == IF dl.called THEN <<"cover">> ELSE <<>>
        video_entry ==
            [WithDuration(WithCover(WithVideoFilename(
                 WithSongInfo(NewEntry(base_name), info), video_path),
                 base_name, dl.ret), duration)
             EXCEPT !.processed_at = now]
    IN IF ~TruthyMeta(extra_metadata) THEN NoResult("", <<"probe", "metadata">>)
       ELSE IF info.raised # "" THEN NoResult(info.raised, <<"probe", "metadata">>)
       ELSE IF dl.raised # ""
       THEN [NoResult(dl.raised, <<"probe", "metadata">> \o cover_calls)
             EXCEPT !.created = dl.created]
       ELSE [raised |-> "", has_result |-> TRUE, video_entry |-> video_entry,
             extra_metadata |-> extra_metadata,
             calls |-> <<"probe", "metadata">> \o cover_calls,
             created |-> dl.created]
\* process_video_file
ProcessVideoFile(video_path, md, cv, pr, now) ==
    LET base_name == BaseName(video_path)
        extra_metadata == GetSpotdlMetadata(md)
        info == ExtractSongInfo(extra_metadata)
        dl == DownloadCover(base_name, cv)
        cover_calls == IF dl.called THEN <<"cover">> ELSE <<>>
        duration == GetVideoDuration(pr)
        video_entry ==
            [WithDuration(WithCover(WithVideoFilename(
                 WithSongInfo(NewEntry(base_name), info), video_path),
                 base_name, dl.ret), duration)
             EXCEPT !.processed_at = now]
    IN IF ~TruthyMeta(extra_metadata) THEN NoResult("", <<"metadata">>)
       ELSE IF info.raised # "" THEN NoResult(info.raised, <<"metadata">>)
       ELSE IF dl.raised # ""
       THEN [NoResult(dl.raised, <<"metadata">> \o cover_calls)
             EXCEPT !.created = dl.created]
       ELSE [raised |-> "", has_result |-> TRUE, video_entry |-> video_entry,
             extra_metadata |-> extra_metadata,
             calls |-> <<"metadata">> \o cover_calls \o <<"probe">>,
             created |-> dl.created]

\* process_video_file_offline
ProcessVideoFileOffline(video_path, pr, now) ==
    LET base_name == BaseName(video_path)
        duration == GetVideoDuration(pr)
    IN [raised |-> "", has_result |-> TRUE,
        video_entry |-> [WithDuration(WithVideoFilename(NewEntry(base_name), video_path),
                                      duration)
                         EXCEPT !.processed_at = now],
        extra_metadata |-> NoneMeta, calls |-> <<"probe">>, created |-> FALSE]

\* needs_update: the list of reasons.
Reasons(video_entry, no_internet) ==
    IF no_internet THEN {}
    ELSE (IF ~Truthy(video_entry.artist) \/ ~Truthy(video_entry.title)
          THEN {"missing metadata"} ELSE {})
         \cup (IF ~Truthy(GetExistingCover(video_entry.filename))
               THEN {"missing cover"} ELSE {})
\* needs_update without the early return of the offline mode.
NeedsUpdateAlsoOffline(video_entry, no_internet) == Reasons(video_entry, FALSE) # {}
NeedsUpdate(video_entry, no_internet) == Reasons(video_entry, no_internet) # {}

\* "or" where the code has "and": asks when artist or title is missing.
ShouldLookupEither(video_entry) ==
    ~Truthy(video_entry.artist) \/ ~Truthy(video_entry.title)
\* update_video_entry asks spotdl only when artist and title are both missing.
ShouldLookup(video_entry) ==
    ~Truthy(video_entry.artist) /\ ~Truthy(video_entry.title)

\* update_video_entry: video_entry is the dict of videos_map, changed in
\* place, so the changes made before an exception stay in videos_map.
UpdateVideoEntry(video_entry, video_path, md, cv, now) ==
    LET base_name == video_entry.filename
        lookup == ShouldLookup(video_entry)
        extra_metadata == IF lookup THEN GetSpotdlMetadata(md) ELSE NoneMeta
        md_calls == IF lookup THEN <<"metadata">> ELSE <<>>
        info == ExtractSongInfo(extra_metadata)
        entry1 == IF TruthyMeta(extra_metadata)
                  THEN [WithSongInfo(video_entry, info) EXCEPT !.processed_at = now]
                  ELSE video_entry
        fetch == ~Truthy(GetExistingCover(base_name))
        dl == DownloadCover(base_name, cv)
        cover_calls == IF fetch /\ dl.called THEN <<"cover">> ELSE <<>>
        entry2 == IF fetch THEN WithCover(entry1, base_name, dl.ret) ELSE entry1
    IN IF TruthyMeta(extra_metadata) /\ info.raised # ""
       THEN [raised |-> info.raised, has_result |-> FALSE, video_entry |-> video_entry,
             extra_metadata |-> NoneMeta, calls |-> md_calls, created |-> FALSE]
       ELSE IF fetch /\ dl.raised # ""
       THEN [raised |-> dl.raised, has_result |-> FALSE, video_entry |-> entry1,
             extra_metadata |-> NoneMeta, calls |-> md_calls \o cover_calls,
             created |-> dl.created]
       ELSE [raised |-> "", has_result |-> TRUE, video_entry |-> entry2,
             extra_metadata |-> extra_metadata, calls |-> md_calls \o cover_calls,
             created |-> fetch /\ dl.created]

\* ---------------------------------------------------------------- state
VARIABLES
    video_files,          \* what get_video_files returns: the videos directory
    cover_files,          \* names of the files in the covers directory
    covers_dir,           \* the covers directory exists
    disk_videos,          \* videos.json: [st, data]
    disk_extra,           \* extra_metadata.json: [st, data]
    pc,                   \* "idle" (no process), "loop", "save"; "dloop" and
                          \* "dwrite" in download-song-data
    status,               \* how the last process ended
    no_internet,          \* args.no_internet of the current run
    run,                  \* number of invocations so far, the clock of `date`
    i,                    \* index of video_path in the for loop
    sp,                   \* position inside save_json_files, 1..4
    in_finally,           \* the save is the one of the finally clause
    exc,                  \* the exception on its way out of main, "" if none
    videos_map,           \* main's videos_map
    extra_metadata_data,  \* main's extra_metadata_data
    calls,                \* history: external tools run by this invocation
    committed,            \* history: filenames in videos.json after the last
                          \* completed save (of this or an earlier invocation)
    prev,                 \* history: the previous invocation and what it left
    killed_after,         \* history: k if an online run was killed after the
                          \* save of file k and before it wrote anything else
    wrote,                \* history: this invocation opened a JSON file for writing
    handled,              \* history: files this invocation took into the loop body
    last,                 \* history: what happened to the file handled last
    script,               \* the script of the current or last process
    videos_data,          \* download-song-data: main's videos_data
    metadata_data,        \* download-song-data: main's metadata_data
    disk_metadata         \* metadata.json: [st, data]

vars == <<video_files, cover_files, covers_dir, disk_videos, disk_extra, pc, status,
          no_internet, run, i, sp, in_finally, exc, videos_map, extra_metadata_data,
          calls, committed, prev, killed_after, wrote, handled, last,
          script, videos_data, metadata_data, disk_metadata>>

\* What only download-song-data touches.
dvars == <<script, videos_data, metadata_data, disk_metadata>>

disk == <<video_files, cover_files, covers_dir, disk_videos, disk_extra>>

\* A file on disk: it does not exist, holds a JSON document, or holds a
\* document cut off after zero or more bytes (opened with "w" and not, or
\* not completely, written).
Missing == [st |-> "missing", data |-> <<>>]
Valid(data) == [st |-> "valid", data |-> data]
CutOff == [st |-> "cut", data |-> <<>>]
\* json.load raises JSONDecodeError on an empty or cut-off file.
Loadable(file) == file.st \in {"missing", "valid"}

\* ----------------------------------------------------------------- Init
\* The file lists glob can return: the extensions in the order of
\* VIDEO_EXTENSIONS, the files of one extension in any order.
RECURSIVE SeqsUpTo(_, _)
SeqsUpTo(S, n) ==
    IF n = 0 THEN {<<>>}
    ELSE LET shorter == SeqsUpTo(S, n - 1)
         IN shorter \cup {Append(q, x) : q \in shorter, x \in S}

FileLists ==
    {q \in SeqsUpTo(AllFiles, MaxFiles) :
        /\ \A j, k \in DOMAIN q : j # k => q[j] # q[k]
        /\ \A j, k \in DOMAIN q : j < k => ExtIndex(q[j].ext) <= ExtIndex(q[k].ext)}

\* Entries an earlier run or an editor left in videos.json.
BareEntry(n) == [NewEntry(n) EXCEPT !.processed_at = 1]
ArtistOnlyEntry(n) == [BareEntry(n) EXCEPT !.artist = PyStr("A")]
CompleteEntry(n) ==
    [BareEntry(n) EXCEPT !.artist = PyStr("A"), !.title = PyStr("T"),
                         !.genre = PyList("pop"), !.duration_seconds = 5]
InitEntries ==
    {BareEntry("a"), ArtistOnlyEntry("a"), CompleteEntry("a"), BareEntry("b"), CompleteEntry("b")}
\* A videos.json as the tool writes it has every filename once; the ones
\* here list the names in order.  An edited one can have a filename twice.
EntriesOf(n) == {<<>>} \cup {<<e>> : e \in {x \in InitEntries : x.filename = n}}
InitCatalogs ==
    {ea \o eb : ea \in EntriesOf("a"), eb \in EntriesOf("b")}
    \cup {<<d[1], d[2]>> : d \in {x \in InitEntries \X InitEntries : x[1].filename = x[2].filename}}

\* The archive that goes with such a catalog: the record of every entry
\* that has its metadata.
RECURSIVE InitExtra(_)
InitExtra(catalog) ==
    IF catalog = <<>> THEN <<>>
    ELSE LET n == Len(catalog)
             e == catalog[n]
             rest == InitExtra(SubSeq(catalog, 1, n - 1))
         IN IF Truthy(e.artist) /\ Truthy(e.title)
            THEN ExtraPut(rest, e.filename, FullMeta) ELSE rest

NoLast == [idx |-> 0, class |-> "", md |-> ""]
NoPrev == [done |-> FALSE, killed_after |-> 0, videos |-> Missing, extra |-> Missing,
           script |-> ""]

\* No process has run yet.
InitProcess ==
    /\ pc = "idle" /\ status = "none" /\ no_internet = FALSE /\ run = 0
    /\ i = 0 /\ sp = 0 /\ in_finally = FALSE /\ exc = ""
    /\ videos_map = <<>> /\ extra_metadata_data = <<>>
    /\ calls = <<>> /\ committed = Keys(disk_videos.data) /\ prev = NoPrev /\ killed_after = 0
    /\ wrote = FALSE /\ handled = 0 /\ last = NoLast
    /\ script = "" /\ videos_data = <<>> /\ metadata_data = <<>>

Init ==
    /\ video_files \in FileLists
    /\ covers_dir = FALSE /\ cover_files = {}
    /\ \/ disk_videos = Missing /\ disk_extra = Missing
       \/ \E c \in InitCatalogs :
             disk_videos = Valid(c) /\ disk_extra = Valid(InitExtra(c))
    /\ disk_metadata = Missing
    /\ InitProcess

\* -------------------------------------------------------------- actions
Call(kind, base_name, idx) == [kind |-> kind, base |-> base_name, idx |-> idx]
RECURSIVE Calls(_, _, _)
Calls(kinds, base_name, idx) ==
    IF kinds = <<>> THEN <<>>
    ELSE <<Call(Head(kinds), base_name, idx)>> \o Calls(Tail(kinds), base_name, idx)

\* A check that always finds a connection.
CheckInternetConnectionAlways(conn) == TRUE
\* check_internet_connection
CheckInternetConnection(conn) == conn

\* load_existing_data: a missing file gives the empty collection.
LoadExistingData(file) == file.data

\* "if not video_files:" that never finds the list empty.
NoVideoFilesNever(files) == FALSE
\* "if not video_files:" after get_video_files, which returns [] when the
\* videos directory is missing or has no file with a video extension.
NoVideoFiles(files) == files = <<>>

\* len(videos_map) < len(videos_list)
\* The check of main, lines 433-436, never finding a duplicate.
DuplicateFilenamesNever(videos_list) == FALSE
DuplicateFilenames(videos_list) == Len(BuildMap(videos_list)) < Len(videos_list)

\* main from its first line to the head of the for loop.
StartRun(ni, conn) ==
    /\ pc = "idle" /\ run < MaxRuns
    /\ run' = run + 1
    /\ no_internet' = ni
    /\ prev' = [done |-> (status = "done"), killed_after |-> killed_after,
                videos |-> disk_videos, extra |-> disk_extra, script |-> script]
    /\ script' = "update"
    /\ videos_data' = <<>> /\ metadata_data' = <<>>
    /\ UNCHANGED disk_metadata
    /\ committed' = Keys(disk_videos.data)
    /\ killed_after' = 0 /\ wrote' = FALSE /\ handled' = 0 /\ last' = NoLast
    /\ calls' = IF ni THEN <<>> ELSE <<Call("connectivity", "", 0)>>
    /\ i' = 1 /\ sp' = 0 /\ in_finally' = FALSE
    /\ UNCHANGED <<video_files, cover_files, disk_videos, disk_extra>>
    /\ IF ~ni /\ ~CheckInternetConnection(conn)
       THEN /\ pc' = "idle" /\ status' = "exit1" /\ exc' = ""
            /\ videos_map' = <<>> /\ extra_metadata_data' = <<>>
            /\ UNCHANGED covers_dir
       ELSE IF ~Loadable(disk_videos) \/ ~Loadable(disk_extra)
       THEN /\ pc' = "idle" /\ status' = "crashed" /\ exc' = "JSONDecodeError"
            /\ videos_map' = <<>> /\ extra_metadata_data' = <<>>
            /\ UNCHANGED covers_dir
       ELSE IF NoVideoFiles(video_files)
       THEN /\ pc' = "idle" /\ status' = "exit1" /\ exc' = ""
            /\ videos_map' = <<>> /\ extra_metadata_data' = <<>>
            /\ UNCHANGED covers_dir
       ELSE /\ covers_dir' = (covers_dir \/ ~ni)
            /\ videos_map' = BuildMap(LoadExistingData(disk_videos))
            /\ extra_metadata_data' = LoadExistingData(disk_extra)
            /\ IF DuplicateFilenames(LoadExistingData(disk_videos))
               THEN pc' = "idle" /\ status' = "crashed" /\ exc' = "ValueError"
               ELSE pc' = "loop" /\ status' = "running" /\ exc' = ""

\* How the lookup of one file went, for the history: not asked, asked and
\* nothing returned, a record returned that lacks "genres", a record returned.
MdSummary(kinds, md) ==
    IF ~(\E k \in DOMAIN kinds : kinds[k] = "metadata") THEN ""
    ELSE IF md.kind # "one" \/ md.rec = EmptyDict THEN "none"
    ELSE IF md.rec.genres.py = "None" THEN "nogenres"
    ELSE "record"

\* A tool that the step does not run has no outcome: its input is fixed.
HasCall(r, kind) == \E k \in DOMAIN r.calls : r.calls[k] = kind
InputsRead(r, md, cv, pr) ==
    /\ HasCall(r, "metadata") \/ md = [kind |-> "one", rec |-> FullMeta]
    /\ HasCall(r, "cover") \/ cv = "ok"
    /\ HasCall(r, "probe") \/ pr = NoDuration

\* One pass through the body of the for loop, up to the call of save_json_files.
ProcessFile(md, cv, pr) ==
    /\ pc = "loop" /\ i <= Len(video_files)
    /\ LET video_path == video_files[i]
           base_name == BaseName(video_path)
           exists == base_name \in Keys(videos_map)
           video_entry == IF exists THEN Lookup(videos_map, base_name) ELSE NewEntry("")
           class == IF ~exists THEN "new"
                    ELSE IF NeedsUpdate(video_entry, no_internet) THEN "update"
                    ELSE "skip"
           r == IF class = "update"
                THEN UpdateVideoEntry(video_entry, video_path, md, cv, run)
                ELSE IF class = "skip" THEN NoResult("", <<>>)
                ELSE IF no_internet THEN ProcessVideoFileOffline(video_path, pr, run)
                ELSE ProcessVideoFile(video_path, md, cv, pr, run)
       IN /\ InputsRead(r, md, cv, pr)
          /\ videos_map' = IF class = "update" \/ (class = "new" /\ r.has_result)
                           THEN Put(videos_map, base_name, r.video_entry)
                           ELSE videos_map
          /\ extra_metadata_data' =
                IF r.has_result /\ TruthyMeta(r.extra_metadata)
                THEN ExtraPut(extra_metadata_data, base_name, r.extra_metadata)
                ELSE extra_metadata_data
          /\ calls' = calls \o Calls(r.calls, base_name, i)
          /\ cover_files' = IF r.created THEN cover_files \cup {base_name \o ".jpg"}
                            ELSE cover_files
          /\ last' = [idx |-> i, class |-> class, md |-> MdSummary(r.calls, md)]
          /\ handled' = handled + 1
          /\ pc' = "save" /\ sp' = 1
          /\ in_finally' = (r.raised # "")
          /\ exc' = r.raised
    /\ UNCHANGED <<video_files, covers_dir, disk_videos, disk_extra, status, no_internet,
                   run, i, committed, prev, killed_after, wrote>>
    /\ UNCHANGED dvars

\* The for loop is exhausted: on to the finally clause.
LeaveLoop ==
    /\ pc = "loop" /\ i > Len(video_files)
    /\ pc' = "save" /\ sp' = 1 /\ in_finally' = TRUE
    /\ UNCHANGED <<disk, status, no_internet, run, i, exc, videos_map,
                   extra_metadata_data, calls, committed, prev, killed_after, wrote,
                   handled, last>>
    /\ UNCHANGED dvars

\* json.dump raises TypeError when an entry holds a value it cannot encode.
EntrySerializable(e) ==
    /\ JsonSerializable(e.artist) /\ JsonSerializable(e.title) /\ JsonSerializable(e.genre)
    /\ JsonSerializable(e.video_filename) /\ JsonSerializable(e.cover_filename)
\* The values of the entries that have a file in the videos directory only.
VideosDataWithFile(map) ==
    SelectSeq(map, LAMBDA e : \E k \in DOMAIN video_files : video_files[k].base = e.filename)
\* list(videos_map.values())
VideosData(map) == map

\* save_json_files, open(OUTPUT_JSON, "w"): the file is cut to length 0.
SaveOpenVideos ==
    /\ pc = "save" /\ sp = 1
    /\ disk_videos' = CutOff
    /\ sp' = 2 /\ wrote' = TRUE
    /\ UNCHANGED <<video_files, cover_files, covers_dir, disk_extra, pc, status,
                   no_internet, run, i, in_finally, exc, videos_map, extra_metadata_data,
                   calls, committed, prev, killed_after, handled, last>>
    /\ UNCHANGED dvars

\* save_json_files, json.dump(videos_data, f) and the end of the with block.
\* A TypeError leaves what was written so far in the file; raised in the
\* loop it leads to the finally clause, raised there it ends main.
SaveDumpVideos ==
    /\ pc = "save" /\ sp = 2
    /\ IF \A k \in DOMAIN videos_map : EntrySerializable(videos_map[k])
       THEN /\ disk_videos' = Valid(VideosData(videos_map))
            /\ sp' = 3
            /\ UNCHANGED <<pc, status, in_finally, exc>>
       ELSE /\ disk_videos' = CutOff
            /\ exc' = "TypeError"
            /\ IF in_finally
               THEN pc' = "idle" /\ status' = "crashed" /\ sp' = 0 /\ UNCHANGED in_finally
               ELSE in_finally' = TRUE /\ sp' = 1 /\ UNCHANGED <<pc, status>>
    /\ UNCHANGED <<video_files, cover_files, covers_dir, disk_extra, no_internet, run, i,
                   videos_map, extra_metadata_data, calls, committed, prev, killed_after,
                   wrote, handled, last>>
    /\ UNCHANGED dvars

\* save_json_files, open(EXTRA_METADATA_JSON, "w")
SaveOpenExtra ==
    /\ pc = "save" /\ sp = 3
    /\ disk_extra' = CutOff
    /\ sp' = 4
    /\ UNCHANGED <<video_files, cover_files, covers_dir, disk_videos, pc, status,
                   no_internet, run, i, in_finally, exc, videos_map, extra_metadata_data,
                   calls, committed, prev, killed_after, wrote, handled, last>>
    /\ UNCHANGED dvars

\* save_json_files, json.dump(extra_metadata_data, f), and the return: to the
\* next file after the save of the loop, out of main after the final one.
SaveDumpExtra ==
    /\ pc = "save" /\ sp = 4
    /\ disk_extra' = Valid(extra_metadata_data)
    /\ committed' = Keys(disk_videos.data)
    /\ sp' = 0
    /\ IF in_finally
       THEN /\ pc' = "idle" /\ status' = (IF exc = "" THEN "done" ELSE "crashed")
            /\ UNCHANGED i
       ELSE /\ pc' = "loop" /\ i' = i + 1
            /\ UNCHANGED status
    /\ UNCHANGED <<video_files, cover_files, covers_dir, disk_videos, no_internet, run,
                   in_finally, exc, videos_map, extra_metadata_data, calls, prev,
                   killed_after, wrote, handled, last>>
    /\ UNCHANGED dvars

\* The process is killed: its memory is gone, the files stay as they are (a
\* file open for writing stays cut off).
Kill ==
    /\ pc # "idle"
    /\ pc' = "idle" /\ status' = "killed"
    /\ killed_after' = IF /\ script = "update" /\ i > 1 /\ ~no_internet
                           /\ (pc = "loop" \/ sp = 1) /\ exc = ""
                        THEN i - 1 ELSE 0
    /\ UNCHANGED <<disk_videos, disk_extra, disk_metadata>>
    /\ i' = 0 /\ sp' = 0 /\ in_finally' = FALSE /\ exc' = ""
    /\ videos_map' = <<>> /\ extra_metadata_data' = <<>>
    /\ videos_data' = <<>> /\ metadata_data' = <<>>
    /\ calls' = <<>> /\ wrote' = FALSE /\ handled' = 0 /\ last' = NoLast
    /\ UNCHANGED <<video_files, cover_files, covers_dir, no_internet, run, committed, prev,
                   script>>

Next ==
    \/ \E ni \in BOOLEAN, conn \in BOOLEAN : StartRun(ni, conn)
    \/ \E md \in MdOutcomes, cv \in CoverOutcomes, pr \in ProbeOutcomes : ProcessFile(md, cv, pr)
    \/ LeaveLoop
    \/ SaveOpenVideos
    \/ SaveDumpVideos
    \/ SaveOpenExtra
    \/ SaveDumpExtra
    \/ Kill

Spec == Init /\ [][Next]_vars

TypeOK ==
    /\ pc \in {"idle", "loop", "save", "dloop", "dwrite"}
    /\ script \in {"", "update", "download"}
    /\ disk_metadata.st \in {"missing", "valid", "cut"}
    /\ status \in {"none", "running", "done", "exit1", "crashed", "killed"}
    /\ run \in 0..MaxRuns
    /\ sp \in 0..4
    /\ disk_videos.st \in {"missing", "valid", "cut"}
    /\ disk_extra.st \in {"missing", "valid", "cut"}
    /\ Cardinality(Keys(videos_map)) = Len(videos_map)

\* =================================================================
\* download-song-data.py
\* =================================================================
COVER_EXTENSIONS == <<".jpg", ".jpeg", ".png", ".webp">>

\* get_existing_cover: the name of the first cover file with a supported
\* extension, None if there is none.
DlGetExistingCover(base_name, covers) ==
    LET found == {k \in DOMAIN COVER_EXTENSIONS : (base_name \o COVER_EXTENSIONS[k]) \in covers}
    IN IF found = {} THEN PyNone
       ELSE PyStr(base_name \o COVER_EXTENSIONS[CHOOSE k \in found : \A j \in found : k <= j])

\* download_cover: a timeout or another exception of the command ends in
\* "return None"; covers is the covers directory afterwards.
DlDownloadCover(base_name, cv, covers) ==
    LET existing_cover == DlGetExistingCover(base_name, covers)
        after == IF cv = "ok" THEN covers \cup {base_name \o ".jpg"} ELSE covers
    IN IF Truthy(existing_cover)
       THEN [ret |-> existing_cover, called |-> FALSE, covers |-> covers]
       ELSE [ret |-> IF cv = "raise" THEN PyNone ELSE DlGetExistingCover(base_name, after),
             called |-> TRUE, covers |-> after]

\* What the save file of spotdl holds for this script: a JSON object with
\* "artists" (a list of objects with "name", or a list of strings), "name"
\* and "genres", or a JSON list of such objects.
DlMeta(artists, name, genres) == [artists |-> artists, name |-> name, genres |-> genres]
DlEmptyDict == DlMeta(PyNone, PyNone, PyNone)
DlMetaRecords ==
    {DlMeta(PyList("A"), PyStr("T"), PyList("pop")),
     DlMeta(PyList("A"), PyStr("T"), PyNone),
     DlMeta(PyNone, PyStr("T"), PyList("pop")),
     DlMeta(PyList("A"), PyNone, PyNone),
     DlMeta([py |-> "strlist", s |-> "A"], PyStr("T"), PyList("pop")),
     DlEmptyDict}
DlMdOutcomes ==
    {[kind |-> k, rec |-> DlEmptyDict] : k \in {"nonzero", "timeout", "list"}}
    \cup {[kind |-> "dict", rec |-> r] : r \in DlMetaRecords}
DlNoneDoc == [kind |-> "none", rec |-> DlEmptyDict]

\* get_spotdl_metadata: the loaded document itself if it is not empty.
DlGetSpotdlMetadata(md) ==
    IF md.kind = "list" \/ (md.kind = "dict" /\ md.rec # DlEmptyDict) THEN md ELSE DlNoneDoc

\* extract_song_info with a default artist that process_video_file does not
\* take for unknown.
DlExtractSongInfoLenient(metadata) ==
    [raised |-> IF metadata.kind = "list" \/ metadata.rec.artists.py = "strlist"
                THEN "AttributeError" ELSE "",
     artist |-> IF Truthy(metadata.rec.artists) THEN PyStr(metadata.rec.artists.s)
                ELSE PyStr("Various Artists"),
     title |-> IF metadata.rec.name.py # "None" THEN metadata.rec.name
               ELSE PyStr("Unknown Title"),
     genre |-> IF Truthy(metadata.rec.genres) THEN PyStr(metadata.rec.genres.s) ELSE PyNone]
\* extract_song_info: metadata.get on a list and "name".get on a str raise
\* AttributeError; genres[0] is the genre.
DlExtractSongInfo(metadata) ==
    [raised |-> IF metadata.kind = "list" \/ metadata.rec.artists.py = "strlist"
                THEN "AttributeError" ELSE "",
     artist |-> IF Truthy(metadata.rec.artists) THEN PyStr(metadata.rec.artists.s)
                ELSE PyStr("Unknown Artist"),
     title |-> IF metadata.rec.name.py # "None" THEN metadata.rec.name
               ELSE PyStr("Unknown Title"),
     genre |-> IF Truthy(metadata.rec.genres) THEN PyStr(metadata.rec.genres.s) ELSE PyNone]

DlNoResult(raised, kinds, covers) ==
    [raised |-> raised, has_result |-> FALSE, video_entry |-> NewEntry(""),
     metadata |-> DlNoneDoc, calls |-> kinds, covers |-> covers]

\* process_video_file
DlProcessVideoFile(video_path, md, cv, pr, now, covers) ==
    LET base_name == BaseName(video_path)
        metadata == DlGetSpotdlMetadata(md)
        info == DlExtractSongInfo(metadata)
        dl == DlDownloadCover(base_name, cv, covers)
        cover_calls == IF dl.called THEN <<"cover">> ELSE <<>>
        duration == GetVideoDuration(pr)
        entry0 == [NewEntry(base_name) EXCEPT !.artist = info.artist, !.title = info.title,
                                              !.genre = IF Truthy(info.genre) THEN info.genre ELSE @]
        video_entry ==
            [WithDuration(WithCover(WithVideoFilename(entry0, video_path), base_name, dl.ret),
                          duration)
             EXCEPT !.processed_at = now]
    IN IF metadata.kind = "none" THEN DlNoResult("", <<"metadata">>, covers)
       ELSE IF info.raised # "" THEN DlNoResult(info.raised, <<"metadata">>, covers)
       ELSE IF \/ ~Truthy(info.artist) \/ ~Truthy(info.title)
               \/ info.artist = PyStr("Unknown Artist") \/ info.title = PyStr("Unknown Title")
       THEN DlNoResult("", <<"metadata">>, covers)
       ELSE [raised |-> "", has_result |-> TRUE, video_entry |-> video_entry,
             metadata |-> metadata, calls |-> <<"metadata">> \o cover_calls \o <<"probe">>,
             covers |-> dl.covers]

\* check_dependencies
CheckDependencies(deps) == deps

\* main from its first line to the head of the for loop.
DlStart(deps) ==
    /\ pc = "idle" /\ run < MaxRuns
    /\ run' = run + 1
    /\ script' = "download"
    /\ prev' = [done |-> (status = "done"), killed_after |-> killed_after,
                videos |-> disk_videos, extra |-> disk_extra, script |-> script]
    /\ committed' = Keys(disk_videos.data)
    /\ killed_after' = 0 /\ wrote' = FALSE /\ handled' = 0 /\ last' = NoLast
    /\ calls' = <<Call("dependencies", "", 0)>>
    /\ i' = 1 /\ sp' = 0 /\ in_finally' = FALSE /\ exc' = ""
    /\ videos_map' = <<>> /\ extra_metadata_data' = <<>>
    /\ videos_data' = <<>> /\ metadata_data' = <<>>
    /\ UNCHANGED <<video_files, cover_files, disk_videos, disk_extra, disk_metadata,
                   no_internet>>
    /\ IF ~CheckDependencies(deps) \/ NoVideoFiles(video_files)
       THEN pc' = "idle" /\ status' = "exit1" /\ UNCHANGED covers_dir
       ELSE pc' = "dloop" /\ status' = "running" /\ covers_dir' = TRUE

DlInputsRead(r, md, cv, pr) ==
    /\ HasCall(r, "metadata") \/ md = [kind |-> "nonzero", rec |-> DlEmptyDict]
    /\ HasCall(r, "cover") \/ cv = "ok"
    /\ HasCall(r, "probe") \/ pr = NoDuration

\* One pass through the body of the for loop; an exception ends main.
DlProcessFile(md, cv, pr) ==
    /\ pc = "dloop" /\ i <= Len(video_files)
    /\ LET video_path == video_files[i]
           r == DlProcessVideoFile(video_path, md, cv, pr, run, cover_files)
       IN /\ DlInputsRead(r, md, cv, pr)
          /\ videos_data' = IF r.has_result THEN Append(videos_data, r.video_entry)
                            ELSE videos_data
          /\ metadata_data' = IF r.has_result
                              THEN ExtraPut(metadata_data, BaseName(video_path), r.metadata)
                              ELSE metadata_data
          /\ cover_files' = r.covers
          /\ calls' = calls \o Calls(r.calls, BaseName(video_path), i)
          /\ handled' = handled + 1
          /\ exc' = r.raised
          /\ IF r.raised # ""
             THEN pc' = "idle" /\ status' = "crashed" /\ UNCHANGED i
             ELSE i' = i + 1 /\ UNCHANGED <<pc, status>>
    /\ UNCHANGED <<video_files, covers_dir, disk_videos, disk_extra, disk_metadata,
                   no_internet, run, sp, in_finally, videos_map, extra_metadata_data,
                   committed, prev, killed_after, wrote, last, script>>

\* After the loop, open(OUTPUT_JSON, 'w'): videos.json is cut to length 0.
DlOpenVideos ==
    /\ pc = "dloop" /\ i > Len(video_files)
    /\ disk_videos' = CutOff
    /\ pc' = "dwrite" /\ sp' = 2 /\ wrote' = TRUE
    /\ UNCHANGED <<video_files, cover_files, covers_dir, disk_extra, disk_metadata, status,
                   no_internet, run, i, in_finally, exc, videos_map, extra_metadata_data,
                   calls, committed, prev, killed_after, handled, last, script,
                   videos_data, metadata_data>>

\* json.dump(videos_data, f)
DlDumpVideos ==
    /\ pc = "dwrite" /\ sp = 2
    /\ disk_videos' = Valid(videos_data)
    /\ sp' = 3
    /\ UNCHANGED <<video_files, cover_files, covers_dir, disk_extra, disk_metadata, pc,
                   status, no_internet, run, i, in_finally, exc, videos_map,
                   extra_metadata_data, calls, committed, prev, killed_after, wrote,
                   handled, last, script, videos_data, metadata_data>>

\* open(METADATA_JSON, 'w')
DlOpenMetadata ==
    /\ pc = "dwrite" /\ sp = 3
    /\ disk_metadata' = CutOff
    /\ sp' = 4
    /\ UNCHANGED <<video_files, cover_files, covers_dir, disk_videos, disk_extra, pc,
                   status, no_internet, run, i, in_finally, exc, videos_map,
                   extra_metadata_data, calls, committed, prev, killed_after, wrote,
                   handled, last, script, videos_data, metadata_data>>

\* json.dump(metadata_data, f) and the rest of main: exit code 1 when no video
\* was processed, 0 otherwise.
DlDumpMetadata ==
    /\ pc = "dwrite" /\ sp = 4
    /\ disk_metadata' = Valid(metadata_data)
    /\ committed' = Keys(disk_videos.data)
    /\ pc' = "idle" /\ sp' = 0
    /\ status' = IF Len(videos_data) = 0 THEN "exit1" ELSE "done"
    /\ UNCHANGED <<video_files, cover_files, covers_dir, disk_videos, disk_extra,
                   no_internet, run, i, in_finally, exc, videos_map, extra_metadata_data,
                   calls, prev, killed_after, wrote, handled, last, script,
                   videos_data, metadata_data>>

\* SpecTools: one run of either script on a directory as earlier runs can
\* have left it: some covers may be there already, and videos.json and the
\* two archives are missing or have an entry of an earlier run.
InitTools ==
    /\ video_files \in FileLists
    /\ cover_files \in {{}, {"a.png"}}
    /\ covers_dir = (cover_files # {})
    /\ \E c \in {<<>>, <<CompleteEntry("b")>>} :
          /\ disk_videos = (IF c = <<>> THEN Missing ELSE Valid(c))
          /\ disk_extra = (IF c = <<>> THEN Missing ELSE Valid(InitExtra(c)))
          /\ disk_metadata =
                (IF c = <<>> THEN Missing
                 ELSE Valid(<<[key |-> "b",
                               rec |-> [kind |-> "dict",
                                        rec |-> DlMeta(PyList("A"), PyStr("T"),
                                                       PyList("pop"))]]>>))
    /\ InitProcess

NextTools ==
    \/ \E ni \in BOOLEAN, conn \in BOOLEAN : status = "none" /\ StartRun(ni, conn)
    \/ \E md \in MdOutcomes, cv \in CoverOutcomes, pr \in ProbeOutcomes : ProcessFile(md, cv, pr)
    \/ LeaveLoop
    \/ SaveOpenVideos
    \/ SaveDumpVideos
    \/ SaveOpenExtra
    \/ SaveDumpExtra
    \/ \E deps \in BOOLEAN : status = "none" /\ DlStart(deps)
    \/ \E md \in DlMdOutcomes, cv \in CoverOutcomes, pr \in ProbeOutcomes : DlProcessFile(md, cv, pr)
    \/ DlOpenVideos
    \/ DlDumpVideos
    \/ DlOpenMetadata
    \/ DlDumpMetadata
    \/ Kill

SpecTools == InitTools /\ [][NextTools]_vars

\* =================================================================
\* The claims
\* =================================================================
\* The calls of this invocation to the metadata, cover and probe tools.
IsProviderCall(c) == c.kind \in {"metadata", "cover", "probe"}
ProviderCalls == SelectSeq(calls, IsProviderCall)
CalledFor(kind, idx) == \E k \in DOMAIN calls : calls[k].kind = kind /\ calls[k].idx = idx
\* The documents on disk are exactly main's two collections.
DiskIsMemory ==
    /\ disk_videos = Valid(VideosData(videos_map))
    /\ disk_extra = Valid(extra_metadata_data)
\* The process ended by returning from main or by an exception in the loop.
Ended == pc = "idle" /\ status \in {"done", "crashed"} /\ handled > 0
\* The step of the loop body for a file, as seen from outside.
BodyStep == pc = "loop" /\ i <= Len(video_files) /\ pc' = "save"
NewCalls == SubSeq(calls', Len(calls) + 1, Len(calls'))
\* The entry of a base name; NewEntry("") if there is none.
EntryOf(map, base_name) ==
    IF base_name \in Keys(map) THEN Lookup(map, base_name) ELSE NewEntry("")

\* C1: after every file handled by the loop the whole catalog and archive
\* of main are on disk once save_json_files is over, and they are on disk
\* when the run has left the loop and ended, normally or by an exception.
C1_SavedAfterEveryFile ==
    (handled > 0 /\ (pc = "loop" \/ Ended)) => DiskIsMemory

\* C2: when the process has been killed, every filename that the last
\* completed save had put into videos.json is still in videos.json.
C2_KillKeepsCommitted ==
    status = "killed" =>
        \A n \in committed : disk_videos.st = "valid" /\ n \in Keys(disk_videos.data)

FullyResolved(file) ==
    /\ file.st = "valid"
    /\ \A k \in DOMAIN video_files :
          LET e == EntryOf(file.data, video_files[k].base)
          IN /\ e.filename = video_files[k].base
             /\ Truthy(e.artist) /\ Truthy(e.title)
             /\ Truthy(GetExistingCover(e.filename))
C4_Idempotent ==
    (prev.done /\ FullyResolved(prev.videos) /\ status \in {"running", "done", "crashed"}) =>
        /\ ProviderCalls = <<>>
        /\ status # "crashed"
        /\ status = "done" => disk_videos = prev.videos /\ disk_extra = prev.extra
C4_Witness ==
    /\ prev.done /\ FullyResolved(prev.videos) /\ status = "done" /\ ~no_internet
    /\ Len(video_files) = 2 /\ wrote

\* C5: when two files of the videos directory have the same base name, no
\* run handles a file or opens a JSON file for writing.
C5_CollisionAborts ==
    (\E j, k \in DOMAIN video_files : j # k /\ video_files[j].base = video_files[k].base)
        => (handled = 0 /\ ~wrote)

\* C6: after an online run has handled a file whose base name was not in
\* the catalog, the catalog has an entry for the base name.
C6_EntryOnFirstSight ==
    (~no_internet /\ last.class = "new") =>
        video_files[last.idx].base \in Keys(videos_map)

\* C6 as amended: after an online run has handled a file whose base name was
\* not in the catalog, main's catalog has an entry for it exactly when the
\* lookup returned one non-empty record with the key "genres"; after a
\* failed or empty lookup there is none.
C6_EntryIffRecord ==
    (~no_internet /\ last.class = "new") =>
        (video_files[last.idx].base \in Keys(videos_map) <=> last.md = "record")
C6_Witness ==
    /\ ~no_internet /\ last.class = "new" /\ last.md = "none" /\ status = "done"
    /\ video_files[last.idx].base \notin Keys(videos_map)
    /\ video_files[last.idx].base \notin Keys(disk_videos.data)

\* The first file of the videos directory with this base name.
FirstFile(base_name) ==
    video_files[CHOOSE k \in DOMAIN video_files :
                   /\ video_files[k].base = base_name
                   /\ \A j \in 1..(k - 1) : video_files[j].base # base_name]
\* What an entry made by the offline mode may hold.
OfflineEntry(e) ==
    /\ e.artist = PyNone /\ e.title = PyNone /\ e.genre = PyNone
    /\ e.cover_filename = PyNone
    /\ e.processed_at # NoTime
    /\ e.video_filename = IF FirstFile(e.filename).ext = ".mp4" THEN PyNone
                          ELSE PyStr(e.filename \o FirstFile(e.filename).ext)
OnlyOfflineEntriesAdded(catalog) ==
    \A k \in DOMAIN catalog :
        catalog[k].filename \notin Keys(prev.videos.data) => OfflineEntry(catalog[k])

\* C7: a run with --no-internet runs no metadata lookup, no cover fetch and
\* no connectivity check, and an entry it adds for a new file has filename,
\* processed_at, video_filename exactly when the file is not <filename>.mp4,
\* duration_seconds exactly when the probe gave a duration, and no artist,
\* title, genre or cover_filename.
C7_Offline ==
    /\ [](no_internet =>
            /\ \A k \in DOMAIN calls : calls[k].kind = "probe"
            /\ OnlyOfflineEntriesAdded(videos_map)
            /\ OnlyOfflineEntriesAdded(disk_videos.data))
    /\ [][\A md \in MdOutcomes, cv \in CoverOutcomes, pr \in ProbeOutcomes :
            (no_internet /\ BodyStep /\ ProcessFile(md, cv, pr)
             /\ video_files[i].base \notin Keys(videos_map))
            => /\ video_files[i].base \in Keys(videos_map')
               /\ EntryOf(videos_map', video_files[i].base).duration_seconds = pr]_vars
C7_Witness ==
    /\ no_internet /\ status = "done" /\ last.class = "new"
    /\ Len(disk_videos.data) = 2
    /\ \E k \in DOMAIN disk_videos.data :
          /\ disk_videos.data[k].filename \notin Keys(prev.videos.data)
          /\ disk_videos.data[k].video_filename = PyStr("a.mkv")
          /\ disk_videos.data[k].duration_seconds = 5
    /\ \E k \in DOMAIN disk_videos.data :
          /\ disk_videos.data[k].filename \notin Keys(prev.videos.data)
          /\ disk_videos.data[k].video_filename = PyNone
          /\ disk_videos.data[k].duration_seconds = NoDuration

\* C8: when the loop has handled a file whose entry existed and the entry
\* has no duration_seconds, the duration probe was run for that file.
C8_DurationBackfill ==
    (last.class \in {"update", "skip"}
     /\ EntryOf(videos_map, video_files[last.idx].base).duration_seconds = NoDuration)
        => CalledFor("probe", last.idx)

\* C8 as amended: for a file whose entry already exists no run, online or
\* offline, runs the duration probe, and duration_seconds of the entry
\* stays as it was; the probe is run for new files only.
C8_NoBackfill ==
    [][(BodyStep /\ video_files[i].base \in Keys(videos_map)) =>
          /\ \A k \in DOMAIN NewCalls : NewCalls[k].kind # "probe"
          /\ EntryOf(videos_map', video_files[i].base).duration_seconds
                = EntryOf(videos_map, video_files[i].base).duration_seconds]_vars
C8_Witness ==
    /\ status = "done" /\ ~no_internet /\ last.class = "update" /\ last.md = "record"
    /\ EntryOf(disk_videos.data, video_files[last.idx].base).filename
          = video_files[last.idx].base
    /\ EntryOf(disk_videos.data, video_files[last.idx].base).duration_seconds = NoDuration
    /\ ~CalledFor("probe", last.idx)

\* C9: when an online run has ended and the lookup for the file it handled
\* last had failed, found nothing or returned a record without "genres",
\* that file was the last of the list: the failure did not end the run.
C9_FailureIsolation ==
    (~no_internet /\ Ended /\ last.md \in {"none", "nogenres"})
        => handled = Len(video_files)

Live == status = "running" \/ Ended
\* The file the loop handled last and its entry in main's catalog.
LastBase == video_files[last.idx].base
LastEntry == EntryOf(videos_map, LastBase)

\* C11: when an online run has handled a file whose entry existed with
\* artist and title (no lookup was made for it) and the covers directory has
\* no <filename>.jpg, the entry was classified as needing an update and the
\* cover fetch was run for the file.
C11_CoverGap ==
    (~no_internet /\ last.class \in {"update", "skip"} /\ last.md = ""
     /\ Truthy(LastEntry.artist) /\ Truthy(LastEntry.title)
     /\ (LastBase \o ".jpg") \notin cover_files)
        => (last.class = "update" /\ CalledFor("cover", last.idx))

\* The record the archive holds for a base name; NoneMeta if there is none.
RecordOf(extra, base_name) ==
    IF base_name \in ExtraKeys(extra) THEN extra[ExtraIndexOf(extra, base_name)].rec
    ELSE NoneMeta
MetadataCalledForBase(base_name) ==
    \E k \in DOMAIN calls : calls[k].kind = "metadata" /\ calls[k].base = base_name

\* C12: a record that the archive held when the run loaded it is in main's
\* archive, and in every archive the run has written, as it was loaded, and
\* the run makes no metadata lookup for a base name that had a record.
C12_ArchiveImmutable ==
    Live =>
        \A k \in DOMAIN prev.extra.data :
            LET n == prev.extra.data[k].key
            IN /\ RecordOf(extra_metadata_data, n) = prev.extra.data[k].rec
               /\ disk_extra.st = "valid" => RecordOf(disk_extra.data, n) = prev.extra.data[k].rec
               /\ ~MetadataCalledForBase(n)

\* C12 as amended: the run makes a metadata lookup for a base name only when
\* the catalog it loaded has no entry for the name or an entry with neither
\* artist nor title, whether or not the archive has a record; a record of
\* the loaded archive is never removed, and it differs from the loaded one,
\* in main's archive or in a written one, only after such a lookup.
C12_ArchiveKept ==
    Live =>
        /\ \A k \in DOMAIN calls :
              calls[k].kind = "metadata" =>
                  LET e == EntryOf(prev.videos.data, calls[k].base)
                  IN ~Truthy(e.artist) /\ ~Truthy(e.title)
        /\ \A k \in DOMAIN prev.extra.data :
              LET n == prev.extra.data[k].key
                  rec == prev.extra.data[k].rec
              IN /\ n \in ExtraKeys(extra_metadata_data)
                 /\ RecordOf(extra_metadata_data, n) # rec => MetadataCalledForBase(n)
                 /\ disk_extra.st = "valid" =>
                       /\ n \in ExtraKeys(disk_extra.data)
                       /\ RecordOf(disk_extra.data, n) # rec => MetadataCalledForBase(n)
C12_Witness ==
    /\ status = "done" /\ ~no_internet
    /\ \E k \in DOMAIN prev.extra.data :
          LET n == prev.extra.data[k].key
          IN /\ prev.extra.data[k].rec = Meta(PyNone, PyNone, PyList(""))
             /\ RecordOf(disk_extra.data, n) = FullMeta
             /\ Truthy(EntryOf(disk_videos.data, n).artist)

\* C13: every entry of the catalog the run loaded keeps its key in main's
\* catalog and in every catalog the run has written, an entry whose video
\* file is gone is there unchanged, and no step of the run takes a key out
\* of main's catalog.
C13_NoDeletion ==
    /\ [](Live =>
            \A k \in DOMAIN prev.videos.data :
                LET e == prev.videos.data[k]
                    gone == \A j \in DOMAIN video_files : video_files[j].base # e.filename
                IN /\ e.filename \in Keys(videos_map)
                   /\ gone => EntryOf(videos_map, e.filename) = e
                   /\ disk_videos.st = "valid" =>
                         /\ e.filename \in Keys(disk_videos.data)
                         /\ gone => EntryOf(disk_videos.data, e.filename) = e)
    /\ [][(pc \in {"loop", "save"} /\ status' # "killed")
             => Keys(videos_map) \subseteq Keys(videos_map')]_vars
C13_Witness ==
    /\ status = "done" /\ disk_videos.st = "valid"
    /\ Len(disk_videos.data) > Len(prev.videos.data)
    /\ \E k \in DOMAIN prev.videos.data :
          /\ \A j \in DOMAIN video_files : video_files[j].base # prev.videos.data[k].filename
          /\ EntryOf(disk_videos.data, prev.videos.data[k].filename) = prev.videos.data[k]

\* C14: within one run the metadata lookup is made at most once for a base
\* name, and so is the cover fetch.
C14_NoRetry ==
    \A j, k \in DOMAIN calls :
        (j < k /\ calls[j].kind \in {"metadata", "cover"} /\ calls[j].kind = calls[k].kind)
            => calls[j].base # calls[k].base

\* C15: when the metadata tool has written more than one record for the
\* query of a file, the step of the loop for that file ends with an
\* exception, and neither main's catalog nor main's archive is changed by it.
C15_MultiEscalates ==
    [][\A md \in MdOutcomes, cv \in CoverOutcomes, pr \in ProbeOutcomes :
          (md.kind = "multi" /\ ProcessFile(md, cv, pr))
              => /\ exc' # ""
                 /\ extra_metadata_data' = extra_metadata_data
                 /\ Keys(videos_map') = Keys(videos_map)
                 /\ EntryOf(videos_map', video_files[i].base).artist
                       = EntryOf(videos_map, video_files[i].base).artist]_vars

\* C16: a run with --no-internet makes no connectivity check; a run
\* without it whose connectivity check fails ends at once with exit code 1:
\* it has made no other call, has loaded nothing, and the videos directory,
\* the covers directory and the two JSON files are as they were.
C16_Preflight ==
    /\ [](no_internet => \A k \in DOMAIN calls : calls[k].kind # "connectivity")
    /\ [][\A ni \in BOOLEAN, conn \in BOOLEAN :
            (StartRun(ni, conn) /\ ~ni /\ ~conn)
                => /\ pc' = "idle" /\ status' = "exit1"
                   /\ UNCHANGED disk
                   /\ calls' = <<Call("connectivity", "", 0)>>
                   /\ videos_map' = <<>> /\ extra_metadata_data' = <<>>
                   /\ ~wrote' /\ handled' = 0]_vars
C16_Witness ==
    /\ status = "exit1" /\ ~no_internet /\ video_files # <<>>
    /\ calls = <<Call("connectivity", "", 0)>>
    /\ disk_videos.st = "cut" /\ ~covers_dir

\* C18: when an online run has ended after handling a new file for which
\* the lookup returned the one record with artist, title and genres and the
\* probe gave the duration, the run returned from main and videos.json has
\* the entry with filename, artist, title, the genre as a string, the
\* duration, processed_at and no cover_filename, and the archive on disk
\* has the record.
C18_EndToEnd ==
    (~no_internet /\ Ended /\ last.class = "new" /\ last.md = "record"
     /\ RecordOf(extra_metadata_data, LastBase) = FullMeta
     /\ LastEntry.duration_seconds = 5)
        => /\ status = "done"
           /\ disk_videos.st = "valid" /\ disk_extra.st = "valid"
           /\ LET e == EntryOf(disk_videos.data, LastBase)
              IN /\ e.filename = LastBase
                 /\ e.artist = PyStr("A") /\ e.title = PyStr("T")
                 /\ e.genre = PyStr("pop")
                 /\ e.duration_seconds = 5 /\ e.processed_at # NoTime
                 /\ e.cover_filename = PyNone
           /\ RecordOf(disk_extra.data, LastBase) = FullMeta

\* The lookup for the file handled last returned a record with an artist
\* and a title.
LastLookupGaveArtistAndTitle ==
    \/ last.md = "nogenres"
    \/ /\ last.md = "record"
       /\ Truthy(RecordOf(extra_metadata_data, LastBase).artist)
       /\ Truthy(RecordOf(extra_metadata_data, LastBase).name)

\* C19: when an online run has handled a file whose entry existed with
\* neither artist nor title, the metadata lookup was made for it; and when
\* the lookup returned a record with artist and title, then after the save
\* videos.json has the entry with artist and title and the archive on disk
\* has a record under the base name.
C19_Enrichment ==
    (~no_internet /\ last.class \in {"update", "skip"}) =>
        /\ (~Truthy(LastEntry.artist) /\ ~Truthy(LastEntry.title)) => last.md # ""
        /\ (last.md # "" /\ LastLookupGaveArtistAndTitle /\ (pc = "loop" \/ Ended)) =>
              /\ disk_videos.st = "valid" /\ disk_extra.st = "valid"
              /\ Truthy(EntryOf(disk_videos.data, LastBase).artist)
              /\ Truthy(EntryOf(disk_videos.data, LastBase).title)
              /\ LastBase \in ExtraKeys(disk_extra.data)

\* C20: an entry of main's catalog has no cover_filename, or one that
\* json.dump can write and that is not the default name <filename>.jpg.
C20_CoverFilename ==
    \A k \in DOMAIN videos_map :
        LET e == videos_map[k]
        IN \/ e.cover_filename = PyNone
           \/ /\ JsonSerializable(e.cover_filename)
              /\ e.cover_filename # PyStr(e.filename \o ".jpg")

\* C17: when the videos directory is missing or has no video file, a run of
\* update-song-data and a run of download-song-data end at once with a
\* nonzero exit code (1, or the traceback of an exception while loading):
\* no file has been handled, no provider has been called, and the videos
\* and covers directories, videos.json, extra_metadata.json and
\* metadata.json are as they were.
C17_EnvironmentErrors ==
    [][(video_files = <<>>
        /\ \/ \E ni \in BOOLEAN, conn \in BOOLEAN : StartRun(ni, conn)
           \/ \E deps \in BOOLEAN : DlStart(deps))
          => /\ pc' = "idle" /\ status' \in {"exit1", "crashed"}
             /\ UNCHANGED <<disk, disk_metadata>>
             /\ handled' = 0 /\ ~wrote'
             /\ \A k \in DOMAIN calls' : ~IsProviderCall(calls'[k])]_vars
C17_Witness ==
    /\ video_files = <<>> /\ script = "download" /\ status = "exit1"
    /\ calls = <<Call("dependencies", "", 0)>>
    /\ disk_videos.st = "valid" /\ disk_metadata.st = "valid" /\ ~wrote

\* The calls of the run are in the order of the files, and the calls for
\* one file in the order given by rank.
CallsInOrder(rank(_)) ==
    \A j, k \in DOMAIN calls :
        (j < k /\ IsProviderCall(calls[j]) /\ IsProviderCall(calls[k])) =>
            /\ calls[j].idx <= calls[k].idx
            /\ calls[j].idx = calls[k].idx => rank(calls[j].kind) < rank(calls[k].kind)
ProbeFirstRank(kind) == IF kind = "probe" THEN 1 ELSE IF kind = "metadata" THEN 2 ELSE 3
LookupFirstRank(kind) == IF kind = "metadata" THEN 1 ELSE IF kind = "cover" THEN 2 ELSE 3

\* C21: all calls for one file come before the calls for the next, and in
\* an online run the calls for a file come in the order duration probe,
\* metadata lookup, cover fetch.
C21_ProbeFirst == ~no_internet => CallsInOrder(ProbeFirstRank)

\* C21 as amended: all calls for one file come before the calls for the
\* next; in an online run the calls for a file come in the order metadata
\* lookup, cover fetch, duration probe, and the probe is run only for a file
\* for which the lookup was made before.
C21_LookupFirst ==
    ~no_internet =>
        /\ CallsInOrder(LookupFirstRank)
        /\ \A k \in DOMAIN calls :
              calls[k].kind = "probe" =>
                  \E j \in 1..(k - 1) : calls[j].kind = "metadata" /\ calls[j].idx = calls[k].idx
C21_Witness ==
    /\ ~no_internet /\ Len(calls) = 3
    /\ calls[2].kind = "metadata" /\ calls[3].kind = "probe" /\ calls[2].idx = calls[3].idx
    /\ last.class = "new"

\* Two entries of the catalog file have the same filename.
CatalogFileHasDuplicate ==
    /\ disk_videos.st = "valid"
    /\ \E j, k \in DOMAIN disk_videos.data :
          j # k /\ disk_videos.data[j].filename = disk_videos.data[k].filename

\* C22: a run of update-song-data that loads a catalog file with two
\* entries of the same filename ends with an error before the loop: no file
\* is handled, no metadata lookup, cover fetch or duration probe is made,
\* nothing is written, and the catalog and archive files stay as they were.
\* When nothing else ends the run before, the error is the ValueError of the
\* duplicate check.
C22_DuplicateKeysAbort ==
    [][\A ni, conn \in BOOLEAN :
          (StartRun(ni, conn) /\ CatalogFileHasDuplicate) =>
              /\ pc' = "idle" /\ status' \in {"exit1", "crashed"}
              /\ handled' = 0 /\ ~wrote'
              /\ \A k \in DOMAIN calls' : ~IsProviderCall(calls'[k])
              /\ UNCHANGED <<video_files, cover_files, disk_videos, disk_extra,
                             disk_metadata>>
              /\ ((ni \/ conn) /\ Loadable(disk_extra) /\ video_files # <<>>)
                     => exc' = "ValueError"]_vars
C22_Witness ==
    /\ script = "update" /\ pc = "idle" /\ status = "crashed" /\ exc = "ValueError"
    /\ CatalogFileHasDuplicate /\ disk_videos = prev.videos /\ disk_extra = prev.extra
    /\ ~no_internet /\ handled = 0 /\ ~wrote

\* Every key of the archive the run started with was a key of the catalog.
ArchiveWithinCatalogAtStart ==
    ExtraKeys(LoadExistingData(prev.extra)) \subseteq Keys(LoadExistingData(prev.videos))
\* The keys of a dict are distinct: no two entries of the map have one filename.
DistinctKeys(map) == \A j, k \in DOMAIN map : map[j].filename = map[k].filename => j = k
\* The positions of the archive that a step added or assigned.
AssignedRecords ==
    {k \in DOMAIN extra_metadata_data' :
        k \notin DOMAIN extra_metadata_data \/ extra_metadata_data'[k] # extra_metadata_data[k]}
\* The positions of the catalog that a step added or assigned.
AssignedEntries ==
    {k \in DOMAIN videos_map' : k \notin DOMAIN videos_map \/ videos_map'[k] # videos_map[k]}

\* C23: in a run of update-song-data that started with every archive key
\* among the catalog keys, every key of main's archive is a key of main's
\* catalog whenever save_json_files is called and in every pair of files it
\* has written; the catalog has one entry per key and an entry the loop
\* assigns has the base name of the handled file as its filename; a record
\* enters the archive only in the step of a new or updated file, under the
\* base name of that file, whose entry is in the catalog after the step.
C23_ArchiveWithinCatalog ==
    /\ [](script = "update" /\ Live /\ ArchiveWithinCatalogAtStart =>
            /\ ExtraKeys(extra_metadata_data) \subseteq Keys(videos_map)
            /\ DistinctKeys(videos_map)
            /\ (disk_videos.st = "valid" /\ disk_extra.st = "valid") =>
                  ExtraKeys(disk_extra.data) \subseteq Keys(disk_videos.data))
    /\ [][BodyStep =>
            /\ \A k \in AssignedEntries : videos_map'[k].filename = video_files[i].base
            /\ \A k \in AssignedRecords :
                  /\ extra_metadata_data'[k].key = video_files[i].base
                  /\ last'.class \in {"new", "update"}
                  /\ video_files[i].base \in Keys(videos_map')
                  /\ last'.class = "new" => video_files[i].base \notin Keys(videos_map)]_vars
C23_Witness ==
    /\ script = "update" /\ pc = "save" /\ ArchiveWithinCatalogAtStart
    /\ Len(extra_metadata_data) = 2 /\ Len(videos_map) = 2
    /\ ExtraKeys(prev.extra.data) # ExtraKeys(extra_metadata_data)
    /\ last.class = "update"

\* download-song-data has returned from main after writing its two files.
DlFinished == script = "download" /\ pc = "idle" /\ status \in {"done", "exit1"} /\ wrote
\* The save file of the lookup is one object with a first artist that has a
\* name, and with a name, neither of them the word for unknown.
LookupGaveArtistAndTitle(md) ==
    /\ md.kind = "dict"
    /\ md.rec.artists.py = "list" /\ md.rec.artists.s \notin {"", "Unknown Artist"}
    /\ md.rec.name.py = "str" /\ md.rec.name.s \notin {"", "Unknown Title"}

\* C24: a run of download-song-data collects an entry and a record for a
\* video file exactly when the lookup for it gave an artist and a title, and
\* touches neither videos.json nor metadata.json before the loop is over;
\* when it has returned after the loop the two files hold exactly what the
\* run collected, whatever they held before: every entry is of a file the run
\* looked up, stamped by this run, with artist and title, and the filenames
\* of the entries are the keys of the archive. A run that is stopped or
\* raises in the loop has written neither file.
C24_DownloadOutput ==
    /\ [](DlFinished =>
            /\ disk_videos = Valid(videos_data) /\ disk_metadata = Valid(metadata_data)
            /\ Keys(disk_videos.data) = ExtraKeys(disk_metadata.data)
            /\ \A k \in DOMAIN disk_videos.data :
                  LET e == disk_videos.data[k]
                  IN /\ Truthy(e.artist) /\ e.artist # PyStr("Unknown Artist")
                     /\ Truthy(e.title) /\ e.title # PyStr("Unknown Title")
                     /\ e.processed_at = run
                     /\ \E j \in DOMAIN video_files :
                           video_files[j].base = e.filename /\ CalledFor("metadata", j))
    /\ [][\A md \in DlMdOutcomes, cv \in CoverOutcomes, pr \in ProbeOutcomes :
             DlProcessFile(md, cv, pr) =>
                 IF LookupGaveArtistAndTitle(md)
                 THEN /\ Len(videos_data') = Len(videos_data) + 1
                      /\ SubSeq(videos_data', 1, Len(videos_data)) = videos_data
                      /\ videos_data'[Len(videos_data')].filename = video_files[i].base
                      /\ ExtraKeys(metadata_data') =
                             ExtraKeys(metadata_data) \cup {video_files[i].base}
                 ELSE UNCHANGED <<videos_data, metadata_data>>]_vars
    /\ [][(script = "download" /\ pc = "dloop" /\ ~(i > Len(video_files) /\ pc' = "dwrite"))
             => UNCHANGED <<disk_videos, disk_metadata, disk_extra>>]_vars
C24_Witness ==
    /\ DlFinished /\ status = "done"
    /\ prev.videos = Valid(<<CompleteEntry("b")>>)
    /\ "b" \notin Keys(disk_videos.data) /\ "b" \notin ExtraKeys(disk_metadata.data)
    /\ Len(disk_videos.data) = 1 /\ Len(video_files) = 2

====
